---- MODULE Spec2Model ----
(***************************************************************************)
(* wkv: Windows product key validation (src/src/lib.rs).                   *)
(*                                                                         *)
(* The library is three pure functions, validate -> validate_windows95 ->  *)
(* mod7.  A key is a Rust &str: a sequence of Unicode scalar values stored *)
(* as UTF-8.  The model keeps the key as its sequence of code points and   *)
(* derives the bytes the code works on (key.len(), key.get(0..=2),         *)
(* key.as_bytes().get(4..)) from it, so that the difference between        *)
(* characters and bytes is visible.                                        *)
(*                                                                         *)
(* The caller types a key character by character and then calls one of the *)
(* three public functions on it; a second call of validate on a key that   *)
(* differs from the first in the byte at index 3 only is modelled to       *)
(* compare the two outcomes.                                               *)
(*                                                                         *)
(* mod7 sums in a u32.  To reach sums beyond u32::MAX the caller may end   *)
(* the key with a long run of one ASCII byte; the run is kept as a count,  *)
(* and the u32 as two 16-bit limbs.  On overflow the code panics (overflow *)
(* checks on, the debug profile) or wraps (overflow checks off, the        *)
(* release profile); both outcomes are modelled.                           *)
(***************************************************************************)
EXTENDS Integers, Sequences, FiniteSets

VARIABLES key, fill, rep, pc, op, result, alt, altResult

vars == <<key, fill, rep, pc, op, result, alt, altResult>>

(* ------------------------------ bounds -------------------------------- *)

\* Longest key typed, in characters.
MaxLen == 12

\* A typed key is made of at most this many runs of one repeated character.
MaxRuns == 3

\* Longest typed key, in characters, that is extended by a long run.
MaxLongHead == 5

\* The lengths of the long runs: up to 9 * 477218588 = 4294967292 fits a
\* u32, and 9 * 477218589 does not.
LongRuns == {477218580, 477218588, 477218595}

\* The byte a long run repeats: '9' or '-'.
FillBytes == {57, 45}

\* Characters typed: '0', '5', '-', and the two-byte U+00E9.
Chars == {48, 53, 45, 233}

\* Characters a variant key may carry at the replaced place: Chars, 'Y',
\* U+00E8 (same lead byte as U+00E9) and U+00A9 (same trail byte as U+00E9).
AltChars == Chars \cup {89, 232, 169}

(* ------------------------------ results ------------------------------- *)

OkWindows95 == "Ok(Key{release: Windows95})"
ErrTooShort == "Err(TooShort)"
ErrTooLong == "Err(TooLong)"
ErrBadMod7 == "Err(BadMod7)"
ErrExpectedDigit == "Err(ExpectedDigit)"
ErrInvalidDigitPosition == "Err(InvalidDigitPosition)"
ErrBadAccess == "Err(BadAccess)"
OkTrue == "Ok(true)"
OkFalse == "Ok(false)"
PanicOverflow == "panic(attempt to add with overflow)"

\* Option<T>: Some(v) and None.
Some(v) == [some |-> TRUE, val |-> v]
None == [some |-> FALSE, val |-> <<>>]

(* --------------------------- the key as bytes ------------------------- *)

\* The UTF-8 encoding of one Unicode scalar value.
Utf8(c) ==
  IF c < 128 THEN <<c>>
  ELSE IF c < 2048 THEN <<192 + (c \div 64), 128 + (c % 64)>>
  ELSE IF c < 65536
    THEN <<224 + (c \div 4096), 128 + ((c \div 64) % 64), 128 + (c % 64)>>
  ELSE <<240 + (c \div 262144), 128 + ((c \div 4096) % 64),
         128 + ((c \div 64) % 64), 128 + (c % 64)>>

RECURSIVE Encode(_)
\* The UTF-8 bytes of a sequence of characters.
Encode(k) ==
  IF k = <<>> THEN <<>> ELSE Utf8(Head(k)) \o Encode(Tail(k))

\* A byte slice: the bytes head followed by count copies of the ASCII byte
\* fill.  A slice with count > 0 has at least 4 bytes in head, so that every
\* index the code reads by number (0..=2, 4..) lies in head.
Slice(h, f, n) == [head |-> h, fill |-> f, count |-> n]

\* key.as_bytes() of the key made of the characters k followed by n copies
\* of the ASCII byte f (n = 0 or n >= 4).
as_bytes(k, f, n) ==
  IF n = 0 THEN Slice(Encode(k), f, 0)
  ELSE Slice(Encode(k) \o <<f, f, f, f>>, f, n - 4)

\* A mutant of len: the number of characters instead of the number of bytes.
len_chars(s) ==
  Cardinality({i \in 1..Len(s.head) : s.head[i] < 128 \/ s.head[i] >= 192})
  + s.count

\* key.len(): the length in bytes.
len(s) == Len(s.head) + s.count

\* str::is_char_boundary, index i counted from 0 (i < Len(s.head) or
\* i >= len(s)).
is_char_boundary(s, i) ==
  IF i = 0 \/ i = len(s) THEN TRUE
  ELSE IF i > len(s) THEN FALSE
  ELSE s.head[i + 1] < 128 \/ s.head[i + 1] >= 192

\* key.get(lo..=hi) on a str: None when the range is out of bounds or does
\* not lie on character boundaries (hi < Len(s.head) when in bounds).
str_get_inclusive(s, lo, hi) ==
  IF lo <= hi + 1 /\ hi + 1 <= len(s)
     /\ is_char_boundary(s, lo) /\ is_char_boundary(s, hi + 1)
  THEN Some(SubSeq(s.head, lo + 1, hi + 1))
  ELSE None

\* bytes.get(lo..) on a byte slice: None when lo is beyond the end
\* (lo <= Len(s.head) when in bounds).
slice_get_from(s, lo) ==
  IF lo <= len(s)
  THEN Some(Slice(SubSeq(s.head, lo + 1, Len(s.head)), s.fill, s.count))
  ELSE None

(* ------------------------------- mod7 --------------------------------- *)

\* A u32 as two 16-bit limbs <<high, low>>.
U32Zero == <<0, 0>>

\* a % 7 of a u32 (65536 % 7 = 2).
U32Mod7(a) == (a[1] * 2 + a[2]) % 7

\* a + x, n times over, in a u32: the wrapped sum, and whether an addition
\* overflowed (x < 10, n < 2^31).
U32AddTimes(a, x, n) ==
  LET low == a[2] + (n % 65536) * x
      high == a[1] + (n \div 65536) * x + (low \div 65536)
  IN [overflow |-> high >= 65536, val |-> <<high % 65536, low % 65536>>]

\* (x as char).to_digit(10)
to_digit(x) == IF x >= 48 /\ x <= 57 THEN Some(x - 48) ELSE None

\* The outcomes of the fold: Ok(sum), Err(ExpectedDigit), or a panic.
FoldOk(a) == [kind |-> "ok", val |-> a]
FoldErr == [kind |-> "err", val |-> U32Zero]
FoldPanic == [kind |-> "panic", val |-> U32Zero]

\* One or more steps |a, &x| of the closure on the same byte x: Ok(a + x),
\* or Err(ExpectedDigit); a + x panics on overflow when checked.
FoldStep(a, x, n, checked) ==
  LET d == to_digit(x)
  IN IF ~d.some THEN FoldErr
     ELSE LET r == U32AddTimes(a, d.val, n)
          IN IF r.overflow /\ checked THEN FoldPanic ELSE FoldOk(r.val)

RECURSIVE FoldHead(_, _, _)
FoldHead(b, a, checked) ==
  IF b = <<>> THEN FoldOk(a)
  ELSE LET r == FoldStep(a, Head(b), 1, checked)
       IN IF r.kind = "ok" THEN FoldHead(Tail(b), r.val, checked) ELSE r

\* key.iter().try_fold(a, ..): stops at the first byte that is no digit.
try_fold(s, a, checked) ==
  LET h == FoldHead(s.head, a, checked)
  IN IF h.kind # "ok" \/ s.count = 0 THEN h
     ELSE FoldStep(h.val, s.fill, s.count, checked)

RECURSIVE SkipHead(_, _)
SkipHead(b, a) ==
  IF b = <<>> THEN a
  ELSE LET d == to_digit(Head(b))
       IN SkipHead(Tail(b), IF d.some THEN U32AddTimes(a, d.val, 1).val ELSE a)

\* A mutant of mod7: a byte that is no digit is skipped.
mod7_skipping(s, checked) ==
  LET h == SkipHead(s.head, U32Zero)
      d == to_digit(s.fill)
      r == IF d.some /\ s.count > 0
           THEN FoldStep(h, s.fill, s.count, checked) ELSE FoldOk(h)
  IN IF r.kind = "panic" THEN PanicOverflow
     ELSE IF U32Mod7(r.val) = 0 THEN OkTrue ELSE OkFalse

mod7(s, checked) ==
  LET r == try_fold(s, U32Zero, checked)
  IN IF r.kind = "panic" THEN PanicOverflow
     ELSE IF r.kind = "err" THEN ErrExpectedDigit
     ELSE IF U32Mod7(r.val) = 0 THEN OkTrue ELSE OkFalse

(* -------------------------- validate_windows95 ------------------------ *)

Triple(d) == <<d, d, d>>

\* "333" | "444" | "555" | "666" | "777" | "888" | "999"
Forbidden == {Triple(d) : d \in {51, 52, 53, 54, 55, 56, 57}}

\* The tail of validate_windows95 once the payload bytes p are read.
Checksum(p, checked) ==
  LET m == mod7(p, checked)
  IN IF m = PanicOverflow THEN PanicOverflow
     ELSE IF m = ErrExpectedDigit THEN ErrExpectedDigit
     ELSE IF m = OkTrue THEN OkWindows95 ELSE ErrBadMod7

\* A mutant: the payload is read from index 3, so the separator is summed.
validate_windows95_from3(s, checked) ==
  LET p == str_get_inclusive(s, 0, 2)
  IN IF ~p.some THEN ErrBadAccess
     ELSE IF p.val \in Forbidden THEN ErrInvalidDigitPosition
     ELSE LET t == slice_get_from(s, 3)
          IN IF ~t.some THEN ErrBadAccess ELSE Checksum(t.val, checked)

\* A mutant: the checksum is evaluated before the forbidden-prefix rule.
validate_windows95_checksumFirst(s, checked) ==
  LET p == str_get_inclusive(s, 0, 2)
      t == slice_get_from(s, 4)
  IN IF ~p.some \/ ~t.some THEN ErrBadAccess
     ELSE IF Checksum(t.val, checked) # OkWindows95
       THEN Checksum(t.val, checked)
     ELSE IF p.val \in Forbidden THEN ErrInvalidDigitPosition
     ELSE OkWindows95

\* A mutant: both reads are bounds-checked before any rule is applied.
validate_windows95_boundsFirst(s, checked) ==
  LET p == str_get_inclusive(s, 0, 2)
      t == slice_get_from(s, 4)
  IN IF ~p.some \/ ~t.some THEN ErrBadAccess
     ELSE IF p.val \in Forbidden THEN ErrInvalidDigitPosition
     ELSE Checksum(t.val, checked)

validate_windows95(s, checked) ==
  LET p == str_get_inclusive(s, 0, 2)
  IN IF ~p.some THEN ErrBadAccess
     ELSE IF p.val \in Forbidden THEN ErrInvalidDigitPosition
     ELSE LET t == slice_get_from(s, 4)
          IN IF ~t.some THEN ErrBadAccess ELSE Checksum(t.val, checked)

(* ------------------------------ validate ------------------------------ *)

\* A mutant: the first arm reads x < 10.
validate_lt10(s, checked) ==
  IF len(s) < 10 THEN ErrTooShort
  ELSE IF len(s) = 11 THEN validate_windows95(s, checked)
  ELSE ErrTooLong

validate(s, checked) ==
  IF len(s) <= 10 THEN ErrTooShort
  ELSE IF len(s) = 11 THEN validate_windows95(s, checked)
  ELSE ErrTooLong

(* ------------------------------ the caller ---------------------------- *)

\* The number of maximal runs of one repeated character in k.
Runs(k) ==
  IF k = <<>> THEN 0
  ELSE 1 + Cardinality({i \in 2..Len(k) : k[i] # k[i - 1]})

\* TRUE iff typing c after k keeps the key within MaxRuns runs.
Extends(k, c) ==
  IF k = <<>> THEN TRUE
  ELSE IF c = k[Len(k)] THEN TRUE
  ELSE Runs(k) < MaxRuns

\* The bytes of the key the caller has prepared.
Input == as_bytes(key, fill, rep)

\* The build profiles that can differ on the prepared key: overflow checks
\* on (TRUE) or off (FALSE).  The digit sum of a typed key without a long
\* run is far below u32::MAX, and one profile stands for both.
Profiles == IF rep = 0 THEN {TRUE} ELSE BOOLEAN

Init ==
  /\ key = <<>>
  /\ fill = 57
  /\ rep = 0
  /\ pc = "input"
  /\ op = "none"
  /\ result = "none"
  /\ alt = <<>>
  /\ altResult = "none"

\* The caller extends the key by one character.
Type(c) ==
  /\ pc = "input"
  /\ rep = 0
  /\ Len(key) < MaxLen
  /\ Extends(key, c)
  /\ key' = Append(key, c)
  /\ UNCHANGED <<fill, rep, pc, op, result, alt, altResult>>

\* The caller ends the key with n copies of the byte f.
Repeat(f, n) ==
  /\ pc = "input"
  /\ rep = 0
  /\ Len(key) <= MaxLongHead
  /\ fill' = f
  /\ rep' = n
  /\ UNCHANGED <<key, pc, op, result, alt, altResult>>

CallValidate(checked) ==
  /\ pc = "input"
  /\ pc' = "done"
  /\ op' = "validate"
  /\ result' = validate(Input, checked)
  /\ UNCHANGED <<key, fill, rep, alt, altResult>>

CallValidateWindows95(checked) ==
  /\ pc = "input"
  /\ pc' = "done"
  /\ op' = "validate_windows95"
  /\ result' = validate_windows95(Input, checked)
  /\ UNCHANGED <<key, fill, rep, alt, altResult>>

CallMod7(checked) ==
  /\ pc = "input"
  /\ pc' = "done"
  /\ op' = "mod7"
  /\ result' = mod7(Input, checked)
  /\ UNCHANGED <<key, fill, rep, alt, altResult>>

\* TRUE iff the byte sequences a and b have the same length and are equal
\* at every index (counted from 0) other than i.
EqualExceptAt(a, b, i) ==
  /\ Len(a) = Len(b)
  /\ \A j \in 1..Len(a) : j # i + 1 => a[j] = b[j]

\* After validate(key), validate is called on a key of 11 bytes that differs
\* from key in the byte at index 3 at most.
CallValidateVariant ==
  /\ pc = "done"
  /\ op = "validate"
  /\ len(Input) = 11
  /\ \E j \in 1..Len(key), c \in AltChars, checked \in Profiles :
       LET k2 == [key EXCEPT ![j] = c]
       IN /\ EqualExceptAt(Encode(key), Encode(k2), 3)
          /\ alt' = k2
          /\ altResult' = validate(as_bytes(k2, fill, 0), checked)
  /\ pc' = "compared"
  /\ UNCHANGED <<key, fill, rep, op, result>>

Next ==
  \/ \E c \in Chars : Type(c)
  \/ \E f \in FillBytes, n \in LongRuns : Repeat(f, n)
  \/ \E checked \in Profiles : CallValidate(checked)
  \/ \E checked \in Profiles : CallValidateWindows95(checked)
  \/ \E checked \in Profiles : CallMod7(checked)
  \/ CallValidateVariant

Spec == Init /\ [][Next]_vars

(* ------------------------ the claims' vocabulary ---------------------- *)

\* The byte of key k at index i, counted from 0.
ByteAt(k, i) == Encode(k)[i + 1]

\* The length of the prepared key in characters and in bytes.
CharLen == Len(key) + rep
ByteLen == Len(Encode(key)) + rep

IsDigit(x) == x \in 48..57

\* The bytes of k at indices 0..2 and 4..10 (k has 11 bytes).
Prefix(k) == SubSeq(Encode(k), 1, 3)
Payload(k) == SubSeq(Encode(k), 5, 11)

AllDigits(b) == \A i \in 1..Len(b) : IsDigit(b[i])

RECURSIVE DigitSum(_)
\* The sum of the digit values of a sequence of digit bytes.
DigitSum(b) == IF b = <<>> THEN 0 ELSE (Head(b) - 48) + DigitSum(Tail(b))

\* TRUE iff every byte of the prepared key is an ASCII digit.
InputAllDigits == AllDigits(Encode(key)) /\ (rep > 0 => IsDigit(fill))

\* The sum of the digits of the prepared key, modulo 7.
InputDigitSumMod7 == (DigitSum(Encode(key)) + (rep % 7) * (fill - 48)) % 7

\* What C9 says mod7 returns on the prepared key.
Mod7Expected ==
  IF ~InputAllDigits THEN ErrExpectedDigit
  ELSE IF InputDigitSumMod7 = 0 THEN OkTrue ELSE OkFalse

Called(f) == pc = "done" /\ op = f

\* "000-5555555"
Key000_5555555 == <<48, 48, 48, 45, 53, 53, 53, 53, 53, 53, 53>>

(* -------------------------------- claims ------------------------------ *)

\* C1 (as claimed): every key of length 11 whose first three characters are
\* no forbidden triple and whose positions 4..10 are all digits validates to
\* Ok(Windows95) when the digit sum is divisible by 7 and to BadMod7 when
\* it is not.  Fails on the code: a key whose index 3 falls inside a
\* multi-byte character gets BadAccess (see C8).
C1_Claim ==
  (Called("validate") /\ ByteLen = 11 /\ Prefix(key) \notin Forbidden
     /\ AllDigits(Payload(key)))
  => result = (IF DigitSum(Payload(key)) % 7 = 0 THEN OkWindows95
               ELSE ErrBadMod7)

\* C2 (as claimed, and as the test w95_invalid_good_start asserts):
\* validate("000-5555555") is Err(BadMod7).  Fails on the code: 7 * 5 = 35
\* is divisible by 7 and the key is accepted.
C2_Claim ==
  (Called("validate") /\ key = Key000_5555555) => result = ErrBadMod7

\* C3: every key of length 11 that begins with a forbidden triple validates
\* to InvalidDigitPosition, whatever follows the triple.
C3_ForbiddenPrefix ==
  (Called("validate") /\ ByteLen = 11 /\ Prefix(key) \in Forbidden)
  => result = ErrInvalidDigitPosition

\* C3 witness: a forbidden prefix followed by a payload that is not all
\* digits is rejected for its prefix.
C3_Witness ==
  /\ Called("validate") /\ ByteLen = 11 /\ Prefix(key) \in Forbidden
  /\ ~AllDigits(Payload(key))
  /\ result = ErrInvalidDigitPosition

\* C4: validate answers TooShort for every key of length at most 10 and
\* TooLong for every key of length above 11; the keys handed to the
\* Windows 95 validator are exactly those of length 11.
C4_LengthDispatch ==
  Called("validate")
  => /\ ByteLen <= 10 => result = ErrTooShort
     /\ ByteLen > 11 => result = ErrTooLong
     /\ ByteLen = 11 => result = validate_windows95(Input, TRUE)
     /\ result \notin {ErrTooShort, ErrTooLong} => ByteLen = 11

\* C4 witness: a key of length 10 is TooShort.
C4_Witness ==
  Called("validate") /\ ByteLen = 10 /\ result = ErrTooShort

\* C5 (as claimed): the length validate dispatches on is the number of
\* characters: at most 10 characters is TooShort, exactly 11 characters
\* reaches the format validator, more is TooLong.
C5_Claim ==
  Called("validate")
  => /\ CharLen <= 10 => result = ErrTooShort
     /\ CharLen = 11 => result \notin {ErrTooShort, ErrTooLong}
     /\ CharLen > 11 => result = ErrTooLong

\* C5 (amended): a key that contains multi-byte characters is dispatched on
\* its length in UTF-8 bytes: TooShort iff it has at most 10 bytes, TooLong
\* iff it has more than 11 bytes, however many characters that is.
C5_ByteLength ==
  (Called("validate") /\ CharLen < ByteLen)
  => /\ result = ErrTooShort <=> ByteLen <= 10
     /\ result = ErrTooLong <=> ByteLen > 11

\* C5 witness: a key of at most 10 characters and more than 11 bytes is
\* TooLong.
C5_Witness ==
  /\ Called("validate") /\ CharLen <= 10 /\ ByteLen > 11
  /\ result = ErrTooLong

\* C6 (as claimed): every key of length 11 whose first three characters are
\* no forbidden triple and that has a non-digit at one of the positions
\* 4..10 validates to ExpectedDigit.  Fails on the code for the keys of C8.
C6_Claim ==
  (Called("validate") /\ ByteLen = 11 /\ Prefix(key) \notin Forbidden
     /\ ~AllDigits(Payload(key)))
  => result = ErrExpectedDigit

\* C7: two keys of length 11 that agree everywhere but at position 3
\* validate to the same outcome.
C7_Position3Ignored ==
  pc = "compared" => altResult = result

\* C7 witness: an accepted key with '-' at position 3 and a variant of it
\* with another character there.
C7_Witness ==
  /\ pc = "compared" /\ result = OkWindows95
  /\ ByteAt(key, 3) = 45 /\ ByteAt(alt, 3) # 45

\* C8 (as claimed): validate never returns BadAccess.  Fails on the code:
\* key.get(0..=2) is None for a key of 11 bytes whose index 3 is not a
\* character boundary.
C8_Claim ==
  Called("validate") => result # ErrBadAccess

\* C9 (as claimed): mod7 of a byte sequence of any length is ExpectedDigit
\* if a byte is no ASCII digit, else Ok(true) iff the digit sum is divisible
\* by 7 and Ok(false) otherwise.  Fails on the code once the digit sum
\* exceeds u32::MAX: the addition panics or wraps.
C9_Claim ==
  Called("mod7") => result = Mod7Expected

\* C9 (amended): the same for every byte sequence of at most 477218588
\* bytes, the longest whose digit sum fits the u32 accumulator whatever the
\* digits are.
C9_Mod7 ==
  (Called("mod7") /\ ByteLen <= 477218588) => result = Mod7Expected

\* C9 witness: 477218588 bytes '9', whose sum 4294967292 is divisible by 7,
\* give Ok(true).
C9_Witness ==
  /\ Called("mod7") /\ key = <<>> /\ fill = 57 /\ rep = 477218588
  /\ result = OkTrue

\* C10 (as claimed): validate_windows95 called on a key shorter than 4 is
\* BadAccess, also when the key is a forbidden triple.
C10_Claim ==
  (Called("validate_windows95") /\ ByteLen < 4) => result = ErrBadAccess

\* C10 (amended): validate_windows95 reads positions 0..2, applies the
\* forbidden-prefix rule, and only then reads the range from position 4: a
\* key shorter than 4 is InvalidDigitPosition when it is a forbidden triple
\* and BadAccess otherwise.
C10_ReadPrefixThenRule ==
  (Called("validate_windows95") /\ ByteLen < 4)
  => result = (IF Encode(key) \in Forbidden THEN ErrInvalidDigitPosition
               ELSE ErrBadAccess)

\* C10 witness: validate_windows95("555") is InvalidDigitPosition.
C10_Witness ==
  /\ Called("validate_windows95") /\ key = <<53, 53, 53>>
  /\ result = ErrInvalidDigitPosition

====
